---- MODULE Spec2Model ----
(***************************************************************************)
(* Model of calculate_electors (src/main.py): apportionment of electors by *)
(* the method of equal proportions.  One call of the function is one       *)
(* behaviour: the precondition check, then one step per iteration of the   *)
(* allocation loop, then the return.                                       *)
(*                                                                         *)
(* Python lists are modelled as sequences; a Python index i is position    *)
(* i + 1 of the sequence.  A priority population / sqrt(e * (e + 1)) is a  *)
(* float in the program; here it is the pair (num, den2) standing for      *)
(* num / sqrt(den2) and two priorities are compared exactly, by            *)
(* num1^2 * den2_2 > num2^2 * den2_1.  Floats can order two priorities     *)
(* that are equal as reals (1/sqrt(2) < 6/sqrt(72) as floats); on the      *)
(* inputs of this model that does not change any selection: for            *)
(* populations up to 5 and up to 8 electors, priorities equal as reals     *)
(* have the same population and elector count or population 0, hence the   *)
(* same float, and on the runs of lines 75-80 the one tie between          *)
(* different entities that is reached (10/sqrt(12*13) = 500/sqrt(624*625)) *)
(* is ordered by the floats in favour of the lower index as well.          *)
(***************************************************************************)
EXTENDS Integers, Sequences, FiniteSets, TLC

VARIABLES populations, num_electors, base_state_electors, pc, electors, k, err

vars == <<populations, num_electors, base_state_electors, pc, electors, k, err>>

\* Bounds of the inputs explored.
MaxN == 3
MaxPop == 3
MaxElectors == 5
MaxBase == 2

\* Base of the two-limb products used to compare priorities without
\* leaving the range of machine integers of the checker.
Limb == 1000

n == Len(populations)

RECURSIVE Sum(_)
Sum(s) == IF s = <<>> THEN 0 ELSE Head(s) + Sum(Tail(s))

\* ---------------------------------------------------------------------
\* priority (lines 21-23)
\* ---------------------------------------------------------------------

\* A plausible slip: the denominator e * e instead of e * (e + 1).
priority_SquareDen(population, current_electors) ==
    LET e == current_electors + 1
    IN  [num |-> population, den2 |-> e * e]

\* population / sqrt(e * (e + 1)) with e = current_electors + 1
priority(population, current_electors) ==
    LET e == current_electors + 1
    IN  [num |-> population, den2 |-> e * (e + 1)]

\* max_prio = 0 (line 33)
ZeroPrio == [num |-> 0, den2 |-> 1]

\* x * y as <<high, low>> with x * y = high * Limb + low, 0 <= low < Limb
Prod(x, y) ==
    LET h == x * (y \div Limb)
        l == x * (y % Limb)
    IN  <<h + (l \div Limb), l % Limb>>

LimbGT(a, b) == a[1] > b[1] \/ (a[1] = b[1] /\ a[2] > b[2])

\* p > max_prio (line 35) on priorities with non-negative numerators
GT(p, q) == LimbGT(Prod(p.num * p.num, q.den2), Prod(q.num * q.num, p.den2))

\* priorities = [priority(populations[i], electors[i]) for i in range(n)]
Priorities(pops, el) ==
    [i \in 1..Len(pops) |-> priority(pops[i], el[i])]

\* ---------------------------------------------------------------------
\* the scan for the maximum (lines 32-37)
\* ---------------------------------------------------------------------

\* A plausible slip: max_prio is not updated when the index is.
RECURSIVE Scan_StaleMax(_, _, _, _)
Scan_StaleMax(priorities, i, max_prio_i, max_prio) ==
    IF i >= Len(priorities)
    THEN max_prio_i
    ELSE IF GT(priorities[i + 1], max_prio)
         THEN Scan_StaleMax(priorities, i + 1, i, max_prio)
         ELSE Scan_StaleMax(priorities, i + 1, max_prio_i, max_prio)

\* for i, p in enumerate(priorities): if p > max_prio: ...
\* i is the Python index of the next entry to look at; the value is the
\* final max_prio_i.
RECURSIVE Scan(_, _, _, _)
Scan(priorities, i, max_prio_i, max_prio) ==
    IF i >= Len(priorities)
    THEN max_prio_i
    ELSE IF GT(priorities[i + 1], max_prio)
         THEN Scan(priorities, i + 1, i, priorities[i + 1])
         ELSE Scan(priorities, i + 1, max_prio_i, max_prio)

\* max_prio_i after lines 31-37, started from the sentinel -1 and 0
MaxPrioIndex(pops, el) == Scan(Priorities(pops, el), 0, -1, ZeroPrio)

\* ---------------------------------------------------------------------
\* electors[max_prio_i] += 1 (line 38)
\* ---------------------------------------------------------------------

\* Python list indexing: a negative index counts from the end.
ListIndex(i, len) == IF i < 0 THEN i + len ELSE i

\* the index is inside the list (otherwise IndexError)
InRange(i, len) == ListIndex(i, len) >= 0 /\ ListIndex(i, len) < len

\* A plausible slip: the sentinel is skipped instead of indexing with it.
Increment_SkipSentinel(el, i) ==
    IF i < 0 THEN el
    ELSE [el EXCEPT ![ListIndex(i, Len(el)) + 1] = @ + 1]

\* A plausible slip: the seat is added twice.
Increment_Twice(el, i) ==
    [el EXCEPT ![ListIndex(i, Len(el)) + 1] = @ + 2]

\* A plausible slip: an index off by one.
Increment_OffByOne(el, i) ==
    [el EXCEPT ![ListIndex(i - 1, Len(el)) + 1] = @ + 1]

Increment(el, i) ==
    [el EXCEPT ![ListIndex(i, Len(el)) + 1] = @ + 1]

\* ---------------------------------------------------------------------
\* calculate_electors (lines 25-39)
\* ---------------------------------------------------------------------

\* A plausible slip: a strict comparison in the assertion.
Precondition_Strict(len, ne, be) == ne > len * be

\* assert(num_electors >= n * base_state_electors)
Precondition(len, ne, be) == ne >= len * be

\* A plausible slip: the list starts from zero instead of the base.
InitialElectors_Zero(len, be) == [i \in 1..len |-> 0]

\* electors = [base_state_electors] * n
InitialElectors(len, be) == [i \in 1..len |-> be]

\* range(num_electors - base_state_electors * n)
Iterations(len, ne, be) == ne - be * len

\* The loop of lines 30-38 as a function: the list after `remaining` more
\* iterations, or "IndexError".
RECURSIVE Loop(_, _, _)
Loop(pops, el, remaining) ==
    IF remaining <= 0 THEN el
    ELSE LET i == MaxPrioIndex(pops, el)
         IN  IF InRange(i, Len(el))
             THEN Loop(pops, Increment(el, i), remaining - 1)
             ELSE "IndexError"

\* The whole call as a function of its arguments.
calculate_electors(pops, ne, be) ==
    IF Precondition(Len(pops), ne, be)
    THEN Loop(pops, InitialElectors(Len(pops), be),
              Iterations(Len(pops), ne, be))
    ELSE "AssertionError"

\* ---------------------------------------------------------------------
\* the call as a state machine
\* ---------------------------------------------------------------------

RECURSIVE SeqsUpTo(_)
SeqsUpTo(len) ==
    IF len = 0 THEN {<<>>}
    ELSE SeqsUpTo(len - 1) \cup [1..len -> 0..MaxPop]

Init ==
    /\ populations \in SeqsUpTo(MaxN)
    /\ num_electors \in 0..MaxElectors
    /\ base_state_electors \in 0..MaxBase
    /\ pc = "check"
    /\ electors = <<>>
    /\ k = 0
    /\ err = "none"

\* the calls of lines 75-80 that the claims name (summarize -> line 58)
ScenarioCalls == {<<100, 0>>, <<100, 1>>, <<100, 2>>, <<100, 3>>, <<1000, 0>>}

InitScenario ==
    /\ populations = <<1, 10, 100, 500>>
    /\ \E c \in ScenarioCalls :
           num_electors = c[1] /\ base_state_electors = c[2]
    /\ pc = "check"
    /\ electors = <<>>
    /\ k = 0
    /\ err = "none"

\* lines 26-29
Check ==
    /\ pc = "check"
    /\ IF Precondition(n, num_electors, base_state_electors)
       THEN /\ electors' = InitialElectors(n, base_state_electors)
            /\ pc' = "loop"
            /\ err' = err
       ELSE /\ electors' = electors
            /\ pc' = "error"
            /\ err' = "AssertionError"
    /\ UNCHANGED <<populations, num_electors, base_state_electors, k>>

\* one iteration of the loop, lines 30-38
Iterate ==
    /\ pc = "loop"
    /\ k < Iterations(n, num_electors, base_state_electors)
    /\ LET max_prio_i == MaxPrioIndex(populations, electors)
       IN  IF InRange(max_prio_i, Len(electors))
           THEN /\ electors' = Increment(electors, max_prio_i)
                /\ k' = k + 1
                /\ pc' = "loop"
                /\ err' = err
           ELSE /\ electors' = electors
                /\ k' = k
                /\ pc' = "error"
                /\ err' = "IndexError"
    /\ UNCHANGED <<populations, num_electors, base_state_electors>>

\* line 39
Return ==
    /\ pc = "loop"
    /\ k >= Iterations(n, num_electors, base_state_electors)
    /\ pc' = "done"
    /\ UNCHANGED <<populations, num_electors, base_state_electors,
                   electors, k, err>>

Next == Check \/ Iterate \/ Return

Spec == Init /\ [][Next]_vars

SpecScenario == InitScenario /\ [][Next]_vars

\* ---------------------------------------------------------------------
\* properties
\* ---------------------------------------------------------------------

remaining == Iterations(n, num_electors, base_state_electors)

AllZero == \A i \in 1..n : populations[i] = 0

\* electors' is electors with entry i (a position of the sequence) raised
\* by one and nothing else changed
AwardedTo(i) ==
    /\ i \in 1..Len(electors)
    /\ electors' = [electors EXCEPT ![i] = @ + 1]

\* C1: after k completed iterations the seat counts sum to
\* base_state_electors * n + k, and the returned list sums to num_electors
\* exactly, also when some or all populations are 0.
C1_Conservation ==
    /\ pc \in {"loop", "done"} =>
           Sum(electors) = base_state_electors * n + k
    /\ pc = "done" => Sum(electors) = num_electors

C1_Witness ==
    /\ pc = "done"
    /\ n >= 2
    /\ AllZero
    /\ k >= 2
    /\ Sum(electors) = num_electors

\* C2: in every iteration the seat goes to the lowest-index entity among
\* those of maximal priority: the chosen i has priority(i) >= priority(j)
\* for all j and priority(i) > priority(j) for all j < i.
C2_LowestIndexOfMaximum ==
    [][ (pc = "loop" /\ k' = k + 1) =>
          \E i \in 1..n :
              /\ AwardedTo(i)
              /\ \A j \in 1..n :
                     ~ GT(priority(populations[j], electors[j]),
                          priority(populations[i], electors[i]))
              /\ \A j \in 1..(i - 1) :
                     GT(priority(populations[i], electors[i]),
                        priority(populations[j], electors[j])) ]_vars

\* C3 as amended: the call fails at the assertion, before any seat list
\* exists and before any iteration, whenever num_electors is less than
\* base_state_electors * n; an empty population list is not rejected by
\* that check, and with num_electors = 0 the call returns the empty list.
C3_PreconditionOnly ==
    /\ num_electors < base_state_electors * n =>
           /\ pc \in {"check", "error"}
           /\ pc = "error" =>
                  err = "AssertionError" /\ k = 0 /\ electors = <<>>
    /\ (n = 0 /\ pc # "check") => err # "AssertionError"
    /\ (n = 0 /\ num_electors = 0) =>
           /\ pc # "error"
           /\ pc = "done" => electors = <<>> /\ k = 0

C3_Witness ==
    \/ pc = "error" /\ err = "AssertionError" /\ n >= 1
    \/ pc = "done" /\ n = 0 /\ num_electors = 0

\* C3 as stated: the call fails at the precondition check and returns no
\* list whenever num_electors < base_state_electors * n or n = 0.
C3_EmptyListRejected ==
    (num_electors < base_state_electors * n \/ n = 0) =>
        /\ pc # "done"
        /\ pc = "error" => err = "AssertionError"

\* C4: when no entity has a strictly positive priority in an iteration,
\* the call fails with an error and no seat count is incremented in that
\* iteration.
C4_DegenerateInputFails ==
    [][ ( /\ pc = "loop"
          /\ k < remaining
          /\ \A i \in 1..n :
                 ~ GT(priority(populations[i], electors[i]), ZeroPrio) )
        => (pc' = "error" /\ electors' = electors) ]_vars

\* C5: raising the population of one entity, everything else equal, never
\* lowers the number of seats that entity is returned.
C5_PopulationMonotone ==
    pc = "done" =>
        \A i \in 1..n : \A q \in 0..(populations[i] - 1) :
            LET lower == calculate_electors(
                             [populations EXCEPT ![i] = q],
                             num_electors, base_state_electors)
            IN  lower[i] <= electors[i]

C5_Witness ==
    /\ pc = "done"
    /\ \E i \in 1..n : \E q \in 0..(populations[i] - 1) :
           calculate_electors([populations EXCEPT ![i] = q],
                              num_electors, base_state_electors)[i]
               < electors[i]
    /\ \E i \in 1..n : populations[i] = 0
    /\ \E i, j \in 1..n : i # j /\ populations[i] = populations[j]
                                /\ populations[i] > 0

\* C6: the returned list has one entry per input entity, each at least
\* base_state_electors.
C6_LengthAndFloor ==
    (pc = "done" /\ n >= 1) =>
        /\ Len(electors) = n
        /\ \A i \in 1..n : electors[i] >= base_state_electors

C6_Witness ==
    /\ pc = "done"
    /\ n >= 2
    /\ base_state_electors >= 1
    /\ k >= 1
    /\ \E i \in 1..n : electors[i] = base_state_electors
    /\ \E i \in 1..n : electors[i] > base_state_electors

\* the results printed for the calls of lines 75-80 (lines 84-126)
Expected(ne, be) ==
    CASE ne = 100 /\ be = 0 -> <<0, 1, 16, 83>>
      [] ne = 100 /\ be = 1 -> <<1, 1, 16, 82>>
      [] ne = 100 /\ be = 2 -> <<2, 2, 15, 81>>
      [] ne = 100 /\ be = 3 -> <<3, 3, 15, 79>>
      [] ne = 1000 /\ be = 0 -> <<1, 15, 163, 821>>

\* C7: for populations [1, 10, 100, 500] the call returns [0, 1, 16, 83]
\* for (100, 0), [1, 1, 16, 82] for (100, 1), [2, 2, 15, 81] for (100, 2),
\* [3, 3, 15, 79] for (100, 3) and [1, 15, 163, 821] for (1000, 0).
C7_Scenarios ==
    (pc = "done" /\ populations = <<1, 10, 100, 500>>
                 /\ <<num_electors, base_state_electors>> \in ScenarioCalls)
        => electors = Expected(num_electors, base_state_electors)

C7_Witness ==
    /\ pc = "done"
    /\ populations = <<1, 10, 100, 500>>
    /\ num_electors = 1000
    /\ electors = <<1, 15, 163, 821>>

\* C8: every iteration raises the seat count of exactly one entity by
\* exactly one and leaves the others unchanged; no seat count ever
\* decreases during a run.
C8_OneIncrementPerIteration ==
    [][ /\ (pc = "loop" /\ k' = k + 1) => \E i \in 1..n : AwardedTo(i)
        /\ (pc = "loop" /\ pc' = "loop") => k' = k + 1
        /\ pc # "check" =>
               /\ Len(electors') = Len(electors)
               /\ \A i \in 1..Len(electors) : electors'[i] >= electors[i]
      ]_vars

C8_Witness ==
    /\ pc = "loop"
    /\ k >= 1
    /\ n >= 2
    /\ AllZero
    /\ electors[n] = base_state_electors + k

\* C9: every call either fails its precondition check immediately or
\* returns after exactly num_electors - base_state_electors * n iterations;
\* no call that passes the check ends in an error part-way through the loop.
C9_NoErrorInsideLoop ==
    /\ pc = "error" => (err = "AssertionError" /\ k = 0 /\ electors = <<>>)
    /\ pc = "done" => k = remaining
    /\ (pc = "done" /\ remaining = 0) =>
           electors = InitialElectors(n, base_state_electors)

\* C10: in the returned list s, for every entity i with more than the base
\* and every entity j, P[i]^2 * (s[j]+1) * (s[j]+2) >= P[j]^2 * s[i] *
\* (s[i]+1); an entity of population 0 ends with exactly the base whenever
\* some entity has a positive population.
C10_EqualProportions ==
    pc = "done" =>
        /\ \A i, j \in 1..n :
               electors[i] > base_state_electors =>
                   populations[i] * populations[i]
                       * (electors[j] + 1) * (electors[j] + 2)
                   >= populations[j] * populations[j]
                       * electors[i] * (electors[i] + 1)
        /\ (~ AllZero) =>
               \A i \in 1..n :
                   populations[i] = 0 => electors[i] = base_state_electors

C10_Witness ==
    /\ pc = "done"
    /\ k >= 3
    /\ \E i, j \in 1..n :
           /\ i # j
           /\ electors[i] > base_state_electors
           /\ electors[j] > base_state_electors
           /\ populations[i] # populations[j]
    /\ \E i \in 1..n : populations[i] = 0

====
